---- MODULE Spec2Model ----
(***************************************************************************)
(* Model of recur_scan/features.py: the feature functions computed for a   *)
(* reference transaction against a history, and the process-wide           *)
(* lru_cache that memoises _parse_date.                                    *)
(*                                                                         *)
(* Values.  A Transaction is a record [name, amount, date].  A date STRING *)
(* is the record [y, m, d, pad]: the three numeric fields of the text      *)
(* "Y-M-D" and whether one-digit fields are zero padded ("2024-01-05" and  *)
(* "2024-1-5" are two different strings that strptime parses to the same   *)
(* date).  A parsed date is its proleptic Gregorian ordinal, as            *)
(* datetime.date orders and subtracts dates.  Amounts are whole currency   *)
(* units (integers), for which the float arithmetic of the source is       *)
(* exact.  Every function result is a record [exc, val]: exc = "none" for  *)
(* a returned value, otherwise the name of the exception raised.           *)
(***************************************************************************)
EXTENDS Integers, Sequences, FiniteSets, TLC

VARIABLES op, transaction, all_transactions, n_days_apart, n_days_off,
          min_occurrences, date_str, ret, cache

vars == <<op, transaction, all_transactions, n_days_apart, n_days_off,
          min_occurrences, date_str, ret, cache>>

(***************************************************************************)
(* Bounds of the model.                                                    *)
(***************************************************************************)
\* capacity of the memo table of _parse_date (1024 in the source, scaled
\* down so that eviction happens)
MaxCacheSize == 2
\* longest history passed to a feature function
MaxHist == 3

(***************************************************************************)
(* Results                                                                 *)
(***************************************************************************)
Return(v) == [exc |-> "none", val |-> v]

Raise(e) == [exc |-> e, val |-> 0]

Abs(x) == IF x < 0 THEN -x ELSE x

\* Python's a % b for b # 0: the result has the sign of the divisor
PyMod(a, b) == IF b > 0 THEN a % b ELSE -((-a) % (-b))

(***************************************************************************)
(* datetime.strptime(date_str, "%Y-%m-%d").date()                          *)
(***************************************************************************)
IsLeap(y) == (y % 4 = 0) /\ ((y % 100 # 0) \/ (y % 400 = 0))

DaysInMonth(y, m) ==
    CASE m \in {1, 3, 5, 7, 8, 10, 12} -> 31
      [] m \in {4, 6, 9, 11} -> 30
      [] OTHER -> IF IsLeap(y) THEN 29 ELSE 28

RECURSIVE DaysBeforeMonth(_, _)
DaysBeforeMonth(y, m) ==
    IF m <= 1 THEN 0 ELSE DaysBeforeMonth(y, m - 1) + DaysInMonth(y, m - 1)

DaysBeforeYear(y) ==
    (y - 1) * 365 + ((y - 1) \div 4) - ((y - 1) \div 100) + ((y - 1) \div 400)

ToOrdinal(y, m, d) == DaysBeforeYear(y) + DaysBeforeMonth(y, m) + d

ValidDate(s) ==
    /\ s.y \in 1..9999
    /\ s.m \in 1..12
    /\ s.d \in 1..DaysInMonth(s.y, s.m)

strptime(s) ==
    IF ValidDate(s) THEN Return(ToOrdinal(s.y, s.m, s.d)) ELSE Raise("ValueError")

(***************************************************************************)
(* @lru_cache _parse_date.  The cache is the sequence of its entries       *)
(* [key, value], most recently used first.  A call yields [ret, cache].    *)
(***************************************************************************)
Take(s, n) == IF Len(s) <= n THEN s ELSE SubSeq(s, 1, n)

CacheKeys(c) == {c[i].key : i \in 1..Len(c)}

CacheIndex(c, s) == CHOOSE i \in 1..Len(c) : c[i].key = s

\* a broken memo table: a hit hands back the most recently stored value
parse_date_stale(c, s) ==
    IF s \in CacheKeys(c)
    THEN [ret |-> Return(c[1].value), cache |-> c]
    ELSE LET r == strptime(s)
         IN  IF r.exc # "none"
             THEN [ret |-> r, cache |-> c]
             ELSE [ret |-> r,
                   cache |-> Take(<<[key |-> s, value |-> r.val]>> \o c, MaxCacheSize)]

parse_date(c, s) ==
    IF s \in CacheKeys(c)
    THEN LET i == CacheIndex(c, s)
         IN  [ret |-> Return(c[i].value),
              cache |-> <<c[i]>> \o SelectSeq(c, LAMBDA e : e.key # s)]
    ELSE LET r == strptime(s)
         IN  IF r.exc # "none"
             THEN [ret |-> r, cache |-> c]
             ELSE [ret |-> r,
                   cache |-> Take(<<[key |-> s, value |-> r.val]>> \o c, MaxCacheSize)]

\* the calls _parse_date(strs[1]), _parse_date(strs[2]), ... made in this
\* order: the values they return and the cache they leave.  The callers
\* below pass dates of transactions, which the data model keeps valid.
RECURSIVE ParseAll(_, _)
ParseAll(c, strs) ==
    IF strs = <<>>
    THEN [vals |-> <<>>, cache |-> c]
    ELSE LET p == parse_date(c, Head(strs))
             q == ParseAll(p.cache, Tail(strs))
         IN  [vals |-> <<p.ret.val>> \o q.vals, cache |-> q.cache]

Dates(txs) == [i \in 1..Len(txs) |-> txs[i].date]

(***************************************************************************)
(* Names: str.lower() and str.split() on the names the model uses          *)
(***************************************************************************)
Lower(n) ==
    CASE n = "Netflix" -> "netflix"
      [] n = "NETFLIX" -> "netflix"
      [] n = "Hulu" -> "hulu"
      [] n = "AT&T Wireless" -> "at&t wireless"
      [] n = "Geico Insurance" -> "geico insurance"
      [] OTHER -> n

Tokens(n) ==
    CASE n = "" -> {}
      [] n = "AT&T Wireless" -> {"AT&T", "Wireless"}
      [] n = "at&t wireless" -> {"at&t", "wireless"}
      [] n = "Geico Insurance" -> {"Geico", "Insurance"}
      [] n = "geico insurance" -> {"geico", "insurance"}
      [] OTHER -> {n}

\* n1/d1 < n2/d2 for non-zero d1, d2 of either sign
RatLT(n1, d1, n2, d2) ==
    IF d1 * d2 > 0 THEN n1 * d2 < n2 * d1 ELSE n1 * d2 > n2 * d1

RECURSIVE SumSeq(_)
SumSeq(s) == IF s = <<>> THEN 0 ELSE Head(s) + SumSeq(Tail(s))

SumSq(s) == SumSeq([i \in 1..Len(s) |-> s[i] * s[i]])

\* statistics.stdev(xs)^2 for Len(xs) >= 2, as the fraction num/den
Variance(xs) ==
    [num |-> Len(xs) * SumSq(xs) - SumSeq(xs) * SumSeq(xs),
     den |-> Len(xs) * (Len(xs) - 1)]

(***************************************************************************)
(* detect_sequence_patterns                                                *)
(***************************************************************************)
NoPattern ==
    [sequence_confidence |-> [kind |-> "zero", p |-> 0, num |-> 0, den |-> 1],
     sequence_pattern |-> "none",
     sequence_length |-> 0]

\* the 5% test with the tolerance taken on the magnitude of the amount
vendor_txs_abs(transaction_, all_transactions_) ==
    SelectSeq(all_transactions_, LAMBDA t :
        /\ Lower(t.name) = Lower(transaction_.name)
        /\ RatLT(Abs(t.amount - transaction_.amount), Abs(transaction_.amount), 1, 20))

\* lines 23-27; transaction_.amount # 0 here
vendor_txs(transaction_, all_transactions_) ==
    SelectSeq(all_transactions_, LAMBDA t :
        /\ Lower(t.name) = Lower(transaction_.name)
        /\ RatLT(Abs(t.amount - transaction_.amount), transaction_.amount, 1, 20))

\* sorted(..., key=...): stable, ascending by key; s is a sequence of [tx, key]
RECURSIVE InsertByKey(_, _)
InsertByKey(e, s) ==
    IF s = <<>> THEN <<e>>
    ELSE IF s[Len(s)].key <= e.key THEN Append(s, e)
    ELSE Append(InsertByKey(e, SubSeq(s, 1, Len(s) - 1)), s[Len(s)])

RECURSIVE SortByKey(_)
SortByKey(s) ==
    IF s = <<>> THEN <<>>
    ELSE InsertByKey(s[Len(s)], SortByKey(SubSeq(s, 1, Len(s) - 1)))

\* the parse calls of lines 34-37, in evaluation order
IntervalParses(sorted) ==
    [j \in 1..(2 * (Len(sorted) - 1)) |->
        IF j % 2 = 1 THEN sorted[(j + 1) \div 2 + 1].date ELSE sorted[j \div 2].date]

Patterns ==
    <<[name |-> "weekly", expected_interval |-> 7],
      [name |-> "monthly", expected_interval |-> 30],
      [name |-> "yearly", expected_interval |-> 365]>>

\* the tolerance without its 10% part: always 2 days
Tolerance10_flat(expected_interval) == 20

\* ten times max(2, expected_interval * 0.1)
Tolerance10(expected_interval) ==
    IF 20 >= expected_interval THEN 20 ELSE expected_interval

\* the tolerance window forgotten: every period is a candidate
WithinTolerance_any(intervals, expected_interval) == TRUE

\* abs(avg_interval - expected_interval) <= tolerance, avg = sum/len
WithinTolerance(intervals, expected_interval) ==
    10 * Abs(SumSeq(intervals) - expected_interval * Len(intervals))
        <= Tolerance10(expected_interval) * Len(intervals)

\* A confidence is the float 0.0, Zero, or the value
\* 1 - stdev_interval / (p + 1e-6), written [kind |-> "expr", p, num, den]
\* with num/den the square of stdev_interval.
Zero == [kind |-> "zero", p |-> 0, num |-> 0, den |-> 1]

Confidence(v, expected_interval) ==
    [kind |-> "expr", p |-> expected_interval, num |-> v.num, den |-> v.den]

\* c > 0.0: stdev < p + 1e-6, that is num/den < (p + 1e-6)^2; num/den is a
\* multiple of 1/den and p*p an integer, so this is num/den <= p*p as long
\* as p * den < 10^5.
ConfPositive(c) ==
    c.kind = "expr" /\ c.num <= c.p * c.p * c.den

\* c1 > c2 for two confidences of one call (they share stdev_interval)
ConfGT(c1, c2) ==
    CASE c2.kind = "zero" -> ConfPositive(c1)
      [] c1.kind = "zero" -> ~ConfPositive(c2)
      [] OTHER -> c1.num > 0 /\ c1.p > c2.p

\* max(0, min(1, confidence)): confidence <= 1 always, as stdev >= 0
Clamp(c) == IF ConfPositive(c) THEN c ELSE Zero

\* confidence = 1.0 exactly: stdev_interval = 0
ConfIsOne(c) == c.kind = "expr" /\ c.num = 0

\* the comparison with best_confidence dropped: a candidate always wins
BetterConfidence_always(confidence, best_confidence) == TRUE

\* line 49
BetterConfidence(confidence, best_confidence) ==
    ConfGT(confidence, best_confidence)

\* lines 44-50: the loop over patterns from index i on
RECURSIVE BestPattern(_, _, _, _)
BestPattern(i, intervals, v, best) ==
    IF i > Len(Patterns) THEN best
    ELSE LET pat == Patterns[i]
             confidence == Confidence(v, pat.expected_interval)
         IN  IF /\ WithinTolerance(intervals, pat.expected_interval)
                /\ BetterConfidence(confidence, best.confidence)
             THEN BestPattern(i + 1, intervals, v,
                      [pattern |-> pat.name, confidence |-> Clamp(confidence)])
             ELSE BestPattern(i + 1, intervals, v, best)

\* the square of stdev_interval (line 39) as a fraction
StdevSq(intervals) ==
    IF Len(intervals) > 1 THEN Variance(intervals) ELSE [num |-> 0, den |-> 1]

detect_sequence_patterns(c, transaction_, all_transactions_, min_occurrences_) ==
    IF transaction_.amount = 0
    THEN [ret |-> Return(NoPattern), cache |-> c]
    ELSE
    LET group == vendor_txs(transaction_, all_transactions_) IN
    IF Len(group) < min_occurrences_
    THEN [ret |-> Return(NoPattern), cache |-> c]
    ELSE
    LET keys == ParseAll(c, Dates(group))
        sorted == SortByKey([i \in 1..Len(group) |->
                                [date |-> group[i].date, key |-> keys.vals[i]]])
        ps == ParseAll(keys.cache, IntervalParses(sorted))
        intervals == [i \in 1..(Len(sorted) - 1) |->
                         ps.vals[2 * i - 1] - ps.vals[2 * i]]
    IN  IF intervals = <<>>
        THEN \* statistics.mean([])
             [ret |-> Raise("StatisticsError"), cache |-> ps.cache]
        ELSE LET v == StdevSq(intervals)
                 best == BestPattern(1, intervals, v,
                             [pattern |-> "none", confidence |-> Zero])
             IN  [ret |-> Return([sequence_confidence |-> best.confidence,
                                  sequence_pattern |-> best.pattern,
                                  sequence_length |-> Len(group)]),
                  cache |-> ps.cache]

(***************************************************************************)
(* VendorHeuristics (lines 59-91).  The regular expressions look for whole *)
(* words; on the names of the model a word is a lowercased token.          *)
(***************************************************************************)
Words(n) == Tokens(Lower(n))

get_is_always_recurring(transaction_) ==
    Lower(transaction_.name) \in {"google storage", "netflix", "hulu", "spotify"}

get_is_insurance(transaction_) ==
    Words(transaction_.name) \cap {"insurance", "insur", "insuranc"} # {}

get_is_utility(transaction_) ==
    Words(transaction_.name) \cap {"utility", "utilit", "energy"} # {}

get_is_phone(transaction_) ==
    Words(transaction_.name) \cap {"at&t", "t-mobile", "verizon"} # {}

(***************************************************************************)
(* get_n_transactions_days_apart and its percentage                        *)
(***************************************************************************)
\* line 122
SkipShort(days_diff, n_days_apart_, n_days_off_) ==
    days_diff < n_days_apart_ - n_days_off_

\* the wrap-around side of the window only
NearMultiple_upper(remainder, n_days_apart_, n_days_off_) ==
    remainder >= n_days_apart_ - n_days_off_ /\ remainder > n_days_off_

\* line 128, with lower_remainder and upper_remainder of lines 114-115
NearMultiple(remainder, n_days_apart_, n_days_off_) ==
    remainder <= n_days_off_ \/ remainder >= n_days_apart_ - n_days_off_

\* lines 117-129: the loop over the rest of all_transactions
RECURSIVE DaysApartLoop(_, _, _, _, _, _)
DaysApartLoop(c, transaction_date, rest, n_days_apart_, n_days_off_, n_txs) ==
    IF rest = <<>>
    THEN [ret |-> Return(n_txs), cache |-> c]
    ELSE LET p == parse_date(c, Head(rest).date)
             days_diff == Abs(p.ret.val - transaction_date)
         IN  IF SkipShort(days_diff, n_days_apart_, n_days_off_)
             THEN DaysApartLoop(p.cache, transaction_date, Tail(rest),
                                n_days_apart_, n_days_off_, n_txs)
             ELSE IF n_days_apart_ = 0
             THEN \* days_diff % 0
                  [ret |-> Raise("ZeroDivisionError"), cache |-> p.cache]
             ELSE LET remainder == PyMod(days_diff, n_days_apart_)
                  IN  DaysApartLoop(p.cache, transaction_date, Tail(rest),
                          n_days_apart_, n_days_off_,
                          IF NearMultiple(remainder, n_days_apart_, n_days_off_)
                          THEN n_txs + 1 ELSE n_txs)

get_n_transactions_days_apart(c, transaction_, all_transactions_, n_days_apart_, n_days_off_) ==
    LET p == parse_date(c, transaction_.date)
    IN  DaysApartLoop(p.cache, p.ret.val, all_transactions_,
                      n_days_apart_, n_days_off_, 0)

\* a percentage is the fraction [num, den], den = len(all_transactions)
Pct(n, all_transactions_) ==
    IF Len(all_transactions_) = 0
    THEN Raise("ZeroDivisionError")
    ELSE Return([num |-> n, den |-> Len(all_transactions_)])

get_pct_transactions_days_apart(c, transaction_, all_transactions_, n_days_apart_, n_days_off_) ==
    LET r == get_n_transactions_days_apart(c, transaction_, all_transactions_,
                                           n_days_apart_, n_days_off_)
    IN  IF r.ret.exc # "none" THEN r
        ELSE [ret |-> Pct(r.ret.val, all_transactions_), cache |-> r.cache]

(***************************************************************************)
(* Day of month, same amount, ends in 99                                   *)
(***************************************************************************)
\* int(date.split("-")[2])
get_day(date) == date.d

get_n_transactions_same_day(transaction_, all_transactions_, n_days_off_) ==
    Len(SelectSeq(all_transactions_, LAMBDA t :
            Abs(get_day(t.date) - get_day(transaction_.date)) <= n_days_off_))

get_pct_transactions_same_day(transaction_, all_transactions_, n_days_off_) ==
    Pct(get_n_transactions_same_day(transaction_, all_transactions_, n_days_off_),
        all_transactions_)

get_ends_in_99(transaction_) == PyMod(transaction_.amount * 100, 100) = 99

get_n_transactions_same_amount(transaction_, all_transactions_) ==
    Len(SelectSeq(all_transactions_, LAMBDA t : t.amount = transaction_.amount))

get_percent_transactions_same_amount(transaction_, all_transactions_) ==
    IF all_transactions_ = <<>>
    THEN Return([num |-> 0, den |-> 1])
    ELSE Return([num |-> get_n_transactions_same_amount(transaction_, all_transactions_),
                 den |-> Len(all_transactions_)])

(***************************************************************************)
(* get_is_recurring                                                        *)
(***************************************************************************)
\* lines 173-176: the dates are compared as strings
similar_transactions(transaction_, all_transactions_) ==
    SelectSeq(all_transactions_, LAMBDA t :
        /\ t.amount = transaction_.amount
        /\ t.name = transaction_.name
        /\ t.date # transaction_.date)

\* only the monthly period is looked at
RecurringInterval_monthly(interval) == interval % 30 = 0

\* line 188
RecurringInterval(interval) ==
    interval % 7 = 0 \/ interval % 14 = 0 \/ interval % 30 = 0

get_is_recurring(c, transaction_, all_transactions_) ==
    LET p == parse_date(c, transaction_.date)
        similar == similar_transactions(transaction_, all_transactions_)
    IN  IF similar = <<>>
        THEN [ret |-> Return(FALSE), cache |-> p.cache]
        ELSE LET ps == ParseAll(p.cache, Dates(similar))
                 \* sorted(...) of line 182 orders the intervals; the loop of
                 \* lines 187-189 returns True at the first that fits
                 intervals == [i \in 1..Len(similar) |-> Abs(p.ret.val - ps.vals[i])]
             IN  [ret |-> Return(\E i \in 1..Len(intervals) :
                                     RecurringInterval(intervals[i])),
                  cache |-> ps.cache]

(***************************************************************************)
(* get_recurring_transaction_confidence.  The score is a float built from  *)
(* two square roots; the model computes an interval [lo, hi] of            *)
(* thousandths that contains it, rounding every step outwards (an exact    *)
(* step keeps lo = hi).                                                    *)
(***************************************************************************)
FloorDiv(a, b) == a \div b

CeilDiv(a, b) == -((-a) \div b)

RECURSIVE SqrtSearch(_, _, _)
SqrtSearch(n, lo, hi) ==
    IF hi - lo <= 1 THEN lo
    ELSE LET mid == (lo + hi) \div 2
         IN  IF mid * mid <= n THEN SqrtSearch(n, mid, hi) ELSE SqrtSearch(n, lo, mid)

\* the integer part of the square root of n < 2^31
ISqrt(n) == SqrtSearch(n, 0, 46341)

\* bounds, in hundredths, of the square root of num/den (num >= 0, den > 0)
SqrtBounds(num, den) ==
    LET q == (num * 10000) \div den
        r == ISqrt(q)
    IN  IF r * r * den = num * 10000
        THEN [lo |-> r, hi |-> r]
        ELSE [lo |-> r, hi |-> r + 1]

\* bounds, in thousandths, of (1 / d) * 0.3 for a d known in hundredths to
\* lie in [dlo, dhi]; nothing is known when the interval reaches across 0
Inverse30(dlo, dhi) ==
    CASE dlo > 0 -> [lo |-> FloorDiv(30000, dhi), hi |-> CeilDiv(30000, dlo)]
      [] dhi < 0 -> [lo |-> -CeilDiv(30000, -dhi), hi |-> -FloorDiv(30000, -dlo)]
      [] OTHER -> [lo |-> -1000000, hi |-> 1000000]

\* lines 201-204
similar_amounts(transaction_, all_transactions_) ==
    LET sim == SelectSeq(all_transactions_, LAMBDA t :
                   t.name = transaction_.name /\ t.date # transaction_.date)
    IN  [i \in 1..Len(sim) |-> sim[i].amount]

\* lines 205-210 and the first term of line 249: 1 + amount_stability in
\* hundredths, or the ZeroDivisionError of 1 / (1 + (-1.0))
StabilityDenominator(amounts) ==
    LET n == Len(amounts)
        total == SumSeq(amounts)
        a == (n * SumSq(amounts) - total * total) * n
        b == (n - 1) * total * total
    IN  IF n < 2 \/ total = 0
        THEN Return([lo |-> 200, hi |-> 200])
        ELSE IF total < 0 /\ a = b
        THEN Raise("ZeroDivisionError")
        ELSE LET sb == SqrtBounds(a, b)
             IN  IF total > 0
                 THEN Return([lo |-> 100 + sb.lo, hi |-> 100 + sb.hi])
                 ELSE Return([lo |-> 100 - sb.hi, hi |-> 100 - sb.lo])

\* lines 217-224 and the second term of line 250, in thousandths;
\* dates are the parsed similar_dates in the order of the history
RegularityTerm(dates) ==
    LET intervals == [i \in 1..(Len(dates) - 1) |-> dates[i + 1] - dates[i]]
    IN  IF Len(dates) < 2 \/ Len(intervals) < 2
        THEN [lo |-> 0, hi |-> 0]
        ELSE LET v == Variance(intervals)
                 sb == SqrtBounds(v.num, v.den)
             IN  Inverse30(100 + sb.lo, 100 + sb.hi)

\* jaccard_similarity in thousandths, rounded down
jaccard_similarity(set1, set2) ==
    IF Cardinality(set1 \cup set2) # 0
    THEN (1000 * Cardinality(set1 \cap set2)) \div Cardinality(set1 \cup set2)
    ELSE 0

get_recurring_transaction_confidence(c, transaction_, all_transactions_) ==
    LET similar == SelectSeq(all_transactions_, LAMBDA t :
                       t.name = transaction_.name /\ t.date # transaction_.date)
        stability == StabilityDenominator(similar_amounts(transaction_, all_transactions_))
        \* 2. similar_dates
        ps == ParseAll(c, Dates(similar))
        regularity == RegularityTerm(ps.vals)
        \* 3. the date is parsed for the transactions of the same name only
        p == parse_date(ps.cache, transaction_.date)
        same_name == SelectSeq(all_transactions_, LAMBDA t : t.name = transaction_.name)
        qs == ParseAll(p.cache, Dates(same_name))
        transaction_frequency ==
            Cardinality({i \in 1..Len(same_name) : Abs(qs.vals[i] - p.ret.val) <= 30})
        frequency == IF transaction_frequency > 0 THEN 200 ELSE 0
        \* 4. every comparison has the name of the reference on both sides
        metadata_similarities ==
            [i \in 1..Len(similar) |->
                jaccard_similarity(Tokens(transaction_.name), Tokens(similar[i].name))]
        metadata ==
            IF similar = <<>> THEN 0
            ELSE (200 * (SumSeq(metadata_similarities) \div Len(similar))) \div 1000
    IN  IF stability.exc # "none"
        THEN [ret |-> stability, cache |-> qs.cache]
        ELSE LET first == Inverse30(stability.val.lo, stability.val.hi)
             IN  [ret |-> Return([lo |-> first.lo + regularity.lo + frequency + metadata,
                                  hi |-> first.hi + regularity.hi + frequency + metadata]),
                  cache |-> qs.cache]

(***************************************************************************)
(* get_features.  The calls are made in the order of lines 274-305; the    *)
(* first exception ends the call, with the cache as the calls before it    *)
(* left it.  (The helpers whose result is not a call of _parse_date, such  *)
(* as get_n_transactions_same_day, cannot raise and are evaluated in the   *)
(* mapping.)                                                               *)
(***************************************************************************)
\* the k-th call of get_features, on the cache c the calls before it left
FeatureStep(k, c, transaction_, all_transactions_) ==
    CASE k = 1 -> detect_sequence_patterns(c, transaction_, all_transactions_, 3)
      [] k = 2 -> [ret |-> get_percent_transactions_same_amount(transaction_, all_transactions_),
                   cache |-> c]
      [] k = 3 -> [ret |-> get_pct_transactions_same_day(transaction_, all_transactions_, 0),
                   cache |-> c]
      [] k = 4 -> get_n_transactions_days_apart(c, transaction_, all_transactions_, 14, 0)
      [] k = 5 -> get_pct_transactions_days_apart(c, transaction_, all_transactions_, 14, 0)
      [] k = 6 -> get_n_transactions_days_apart(c, transaction_, all_transactions_, 14, 1)
      [] k = 7 -> get_pct_transactions_days_apart(c, transaction_, all_transactions_, 14, 1)
      [] k = 8 -> get_n_transactions_days_apart(c, transaction_, all_transactions_, 7, 0)
      [] k = 9 -> get_pct_transactions_days_apart(c, transaction_, all_transactions_, 7, 0)
      [] k = 10 -> get_n_transactions_days_apart(c, transaction_, all_transactions_, 7, 1)
      [] k = 11 -> get_pct_transactions_days_apart(c, transaction_, all_transactions_, 7, 1)
      [] k = 12 -> get_is_recurring(c, transaction_, all_transactions_)
      [] OTHER -> get_recurring_transaction_confidence(c, transaction_, all_transactions_)

\* the results [ret, cache] of the calls k, k + 1, ... appended to done,
\* up to the first that raises (each call is evaluated once: r is a value)
RECURSIVE FeatureSteps(_, _, _, _, _)
FeatureSteps(done, c, k, transaction_, all_transactions_) ==
    IF k > 13 THEN done
    ELSE CHOOSE out \in
             {IF r.ret.exc # "none"
              THEN Append(d, r)
              ELSE FeatureSteps(Append(d, r), r.cache, k + 1,
                                transaction_, all_transactions_) :
                  r \in {FeatureStep(k, c, transaction_, all_transactions_)},
                  d \in {done}} : TRUE

\* lines 276-306: the mapping built from the results of the calls.  A key
\* that starts with a digit is written days_apart_<period>_<tolerance>.
FeatureMap(steps, transaction_, all_transactions_) ==
    IF steps[Len(steps)].ret.exc # "none"
    THEN steps[Len(steps)]
    ELSE [ret |-> Return(
             [n_transactions_same_amount |->
                  get_n_transactions_same_amount(transaction_, all_transactions_),
              percent_transactions_same_amount |-> steps[2].ret.val,
              ends_in_99 |-> get_ends_in_99(transaction_),
              amount |-> transaction_.amount,
              same_day_exact |->
                  get_n_transactions_same_day(transaction_, all_transactions_, 0),
              pct_transactions_same_day |-> steps[3].ret.val,
              same_day_off_by_1 |->
                  get_n_transactions_same_day(transaction_, all_transactions_, 1),
              same_day_off_by_2 |->
                  get_n_transactions_same_day(transaction_, all_transactions_, 2),
              days_apart_14_exact |-> steps[4].ret.val,
              pct_14_days_apart_exact |-> steps[5].ret.val,
              days_apart_14_off_by_1 |-> steps[6].ret.val,
              pct_14_days_apart_off_by_1 |-> steps[7].ret.val,
              days_apart_7_exact |-> steps[8].ret.val,
              pct_7_days_apart_exact |-> steps[9].ret.val,
              days_apart_7_off_by_1 |-> steps[10].ret.val,
              pct_7_days_apart_off_by_1 |-> steps[11].ret.val,
              is_insurance |-> get_is_insurance(transaction_),
              is_utility |-> get_is_utility(transaction_),
              is_phone |-> get_is_phone(transaction_),
              is_always_recurring |-> get_is_always_recurring(transaction_),
              is_recurring |-> steps[12].ret.val,
              recurring_transaction_confidence |-> steps[13].ret.val,
              sequence_confidence |-> steps[1].ret.val.sequence_confidence,
              is_sequence_weekly |->
                  IF steps[1].ret.val.sequence_pattern = "weekly" THEN 1 ELSE 0,
              is_sequence_monthly |->
                  IF steps[1].ret.val.sequence_pattern = "monthly" THEN 1 ELSE 0,
              sequence_length |-> steps[1].ret.val.sequence_length]),
          cache |-> steps[Len(steps)].cache]

get_features(c, transaction_, all_transactions_) ==
    CHOOSE out \in
        {FeatureMap(steps, transaction_, all_transactions_) :
            steps \in {FeatureSteps(<<>>, c, 1, transaction_, all_transactions_)}} : TRUE

(***************************************************************************)
(* The state machine.  The caller owns the reference transaction and the   *)
(* history; the only state of the module itself is the memo table.  A call *)
(* of a feature function is one action (the computation is synchronous):   *)
(* it records its arguments, its result and the cache it leaves.  Finish   *)
(* is the caller dropping the result before the next call.                 *)
(***************************************************************************)
DateStr(y, m, d) == [y |-> y, m |-> m, d |-> d, pad |-> TRUE]

\* the same calendar day written without zero padding ("2024-1-1")
Unpadded(s) == [s EXCEPT !.pad = FALSE]

NoDate == DateStr(1, 1, 1)

NoTx == [name |-> "", amount |-> 0, date |-> NoDate]

Idle == Return(0)

Init ==
    /\ op = "idle"
    /\ transaction = NoTx
    /\ all_transactions = <<>>
    /\ n_days_apart = 0
    /\ n_days_off = 0
    /\ min_occurrences = 0
    /\ date_str = NoDate
    /\ ret = Idle
    /\ cache = <<>>

Finish ==
    /\ op # "idle"
    /\ op' = "idle"
    /\ transaction' = NoTx
    /\ all_transactions' = <<>>
    /\ n_days_apart' = 0
    /\ n_days_off' = 0
    /\ min_occurrences' = 0
    /\ date_str' = NoDate
    /\ ret' = Idle
    /\ UNCHANGED cache

Call_detect_sequence_patterns(t, h, m) ==
    /\ op = "idle"
    /\ LET r == detect_sequence_patterns(cache, t, h, m)
       IN  /\ ret' = r.ret
           /\ cache' = r.cache
    /\ op' = "detect_sequence_patterns"
    /\ transaction' = t
    /\ all_transactions' = h
    /\ min_occurrences' = m
    /\ UNCHANGED <<n_days_apart, n_days_off, date_str>>

Call_parse_date(d) ==
    /\ op = "idle"
    /\ LET r == parse_date(cache, d)
       IN  /\ ret' = r.ret
           /\ cache' = r.cache
    /\ op' = "_parse_date"
    /\ date_str' = d
    /\ UNCHANGED <<transaction, all_transactions, n_days_apart, n_days_off,
                   min_occurrences>>

Call_get_n_transactions_days_apart(t, h, n, off) ==
    /\ op = "idle"
    /\ LET r == get_n_transactions_days_apart(cache, t, h, n, off)
       IN  /\ ret' = r.ret
           /\ cache' = r.cache
    /\ op' = "get_n_transactions_days_apart"
    /\ transaction' = t
    /\ all_transactions' = h
    /\ n_days_apart' = n
    /\ n_days_off' = off
    /\ UNCHANGED <<min_occurrences, date_str>>

Call_get_pct_transactions_days_apart(t, h, n, off) ==
    /\ op = "idle"
    /\ LET r == get_pct_transactions_days_apart(cache, t, h, n, off)
       IN  /\ ret' = r.ret
           /\ cache' = r.cache
    /\ op' = "get_pct_transactions_days_apart"
    /\ transaction' = t
    /\ all_transactions' = h
    /\ n_days_apart' = n
    /\ n_days_off' = off
    /\ UNCHANGED <<min_occurrences, date_str>>

Call_get_is_recurring(t, h) ==
    /\ op = "idle"
    /\ LET r == get_is_recurring(cache, t, h)
       IN  /\ ret' = r.ret
           /\ cache' = r.cache
    /\ op' = "get_is_recurring"
    /\ transaction' = t
    /\ all_transactions' = h
    /\ UNCHANGED <<n_days_apart, n_days_off, min_occurrences, date_str>>

Call_get_recurring_transaction_confidence(t, h) ==
    /\ op = "idle"
    /\ LET r == get_recurring_transaction_confidence(cache, t, h)
       IN  /\ ret' = r.ret
           /\ cache' = r.cache
    /\ op' = "get_recurring_transaction_confidence"
    /\ transaction' = t
    /\ all_transactions' = h
    /\ UNCHANGED <<n_days_apart, n_days_off, min_occurrences, date_str>>

Call_get_features(t, h) ==
    /\ op = "idle"
    /\ LET r == get_features(cache, t, h)
       IN  /\ ret' = r.ret
           /\ cache' = r.cache
    /\ op' = "get_features"
    /\ transaction' = t
    /\ all_transactions' = h
    /\ UNCHANGED <<n_days_apart, n_days_off, min_occurrences, date_str>>

(***************************************************************************)
(* Inputs                                                                  *)
(***************************************************************************)
\* the date string of the day k days after 2024-01-01 (k may be negative)
DayString(k) ==
    CHOOSE s \in {DateStr(y, m, d) : y \in 2023..2025, m \in 1..12, d \in 1..31} :
        ValidDate(s) /\ ToOrdinal(s.y, s.m, s.d) = ToOrdinal(2024, 1, 1) + k

Tx(name, amount, k) == [name |-> name, amount |-> amount, date |-> DayString(k)]

\* all histories of at most MaxHist transactions of U
Histories(U) == UNION {[1..n -> U] : n \in 0..MaxHist}

(***************************************************************************)
(* SpecSeq: detect_sequence_patterns on one vendor at one amount, the      *)
(* dates varying.                                                          *)
(***************************************************************************)
SeqDays == {0, 30, 60, 66, 95}

SeqTxs == {Tx("Netflix", 100, k) : k \in SeqDays}

SeqRefs == {Tx("Netflix", 100, 0), Tx("Netflix", 0, 0)}

SeqHistories == Histories(SeqTxs)

\* the values of min_occurrences; 3 is the default
MinOccs == {1, 2, 3}

SeqCall ==
    \E t \in SeqRefs, h \in SeqHistories :
        \E m \in (IF t.amount = 0 THEN {3} ELSE MinOccs) :
            Call_detect_sequence_patterns(t, h, m)

NextSeq == SeqCall \/ Finish

SpecSeq == Init /\ [][NextSeq]_vars

(***************************************************************************)
(* SpecGroup: detect_sequence_patterns with names and amounts varying.     *)
(***************************************************************************)
GroupTxs ==
    {Tx("Netflix", 100, 0), Tx("NETFLIX", 104, 30), Tx("Netflix", 105, 30),
     Tx("Hulu", 100, 30), Tx("Netflix", -200, 30),
     Tx("NETFLIX", -100, 0)}

GroupRefs == {Tx("Netflix", 100, 0), Tx("Netflix", -100, 0), Tx("Netflix", 0, 0)}

GroupHistories == Histories(GroupTxs)

GroupCall ==
    \E t \in GroupRefs, h \in GroupHistories :
        \E m \in (IF t.amount = 0 THEN {3} ELSE MinOccs) :
            Call_detect_sequence_patterns(t, h, m)

NextGroup == GroupCall \/ Finish

SpecGroup == Init /\ [][NextGroup]_vars

(***************************************************************************)
(* SpecInterval: the interval matcher, with periods of either sign.        *)
(***************************************************************************)
IntervalDays == {-14, 0, 6, 21}

IntervalTxs == {Tx("Netflix", 100, k) : k \in IntervalDays}

IntervalRefs == {Tx("Netflix", 100, 0)}

IntervalHistories == Histories(IntervalTxs)

Periods == {-7, 0, 7}

DaysOffs == {0, 1}

IntervalCount ==
    \E t \in IntervalRefs, h \in IntervalHistories, n \in Periods, off \in DaysOffs :
        Call_get_n_transactions_days_apart(t, h, n, off)

IntervalPct ==
    \E t \in IntervalRefs, h \in IntervalHistories, n \in Periods, off \in DaysOffs :
        Call_get_pct_transactions_days_apart(t, h, n, off)

NextInterval == IntervalCount \/ IntervalPct \/ Finish

SpecInterval == Init /\ [][NextInterval]_vars

(***************************************************************************)
(* SpecRecur: get_is_recurring.                                            *)
(***************************************************************************)
RecurTxs ==
    {Tx("Netflix", 100, 0),
     [name |-> "Netflix", amount |-> 100, date |-> Unpadded(DayString(0))],
     Tx("Netflix", 100, 10), Tx("Netflix", 100, 14), Tx("Netflix", 101, 14),
     Tx("netflix", 100, 14), Tx("Netflix", 100, -30)}

RecurRefs == {Tx("Netflix", 100, 0)}

RecurHistories == Histories(RecurTxs)

RecurCall ==
    \E t \in RecurRefs, h \in RecurHistories : Call_get_is_recurring(t, h)

NextRecur == RecurCall \/ Finish

SpecRecur == Init /\ [][NextRecur]_vars

(***************************************************************************)
(* SpecConf: get_recurring_transaction_confidence, amounts of either sign. *)
(***************************************************************************)
ConfTxs ==
    {Tx("Netflix", a, k) : a \in {-2, -1, 0, 10}, k \in {7, 14, 21, 60}}
        \cup {Tx("Netflix", -1, 0), Tx("Hulu", 10, 7)}

ConfRefs == {Tx("Netflix", -1, 0)}

ConfHistories == Histories(ConfTxs)

ConfCall ==
    \E t \in ConfRefs, h \in ConfHistories :
        Call_get_recurring_transaction_confidence(t, h)

NextConf == ConfCall \/ Finish

SpecConf == Init /\ [][NextConf]_vars

(***************************************************************************)
(* SpecFeatures: get_features, the empty history included.                 *)
(***************************************************************************)
FeatureTxs ==
    {Tx("Netflix", 100, 0), Tx("Netflix", 100, 14), Tx("Netflix", 100, 30),
     Tx("Netflix", 100, 60), Tx("Hulu", 50, 7), Tx("AT&T Wireless", 50, 21)}

FeatureRefs == {Tx("Netflix", 100, 0), Tx("AT&T Wireless", 50, 21)}

FeatureHistories == Histories(FeatureTxs)

FeaturesCall ==
    \E t \in FeatureRefs, h \in FeatureHistories : Call_get_features(t, h)

NextFeatures == FeaturesCall \/ Finish

SpecFeatures == Init /\ [][NextFeatures]_vars

(***************************************************************************)
(* SpecCache: direct calls of _parse_date, one of them on a string that is *)
(* no date, between calls of feature functions that parse through the      *)
(* same memo table.                                                        *)
(***************************************************************************)
CacheStrings ==
    {DayString(0), Unpadded(DayString(0)), DayString(7), DayString(14)}

NotADate == DateStr(2024, 2, 30)

CacheTxs == {[name |-> "Netflix", amount |-> 100, date |-> d] : d \in CacheStrings}

CacheHistories == Histories(CacheTxs)

CacheParse == \E d \in CacheStrings \cup {NotADate} : Call_parse_date(d)

CacheCount ==
    \E t \in CacheTxs, h \in CacheHistories :
        Call_get_n_transactions_days_apart(t, h, 7, 0)

CacheRecurring ==
    \E t \in CacheTxs, h \in CacheHistories : Call_get_is_recurring(t, h)

NextCache == CacheParse \/ CacheCount \/ CacheRecurring \/ Finish

SpecCache == Init /\ [][NextCache]_vars

(***************************************************************************)
(* What the claims speak of, stated on the arguments of the call and       *)
(* computed without the cache, the sort or the group of the function.      *)
(***************************************************************************)
Returned(name) == op = name /\ ret.exc = "none"

\* the candidate group as the specification words it: same name whatever
\* the case; for a positive reference amount the difference is below 5% of
\* it, for a negative one every amount passes
ClaimGroup ==
    SelectSeq(all_transactions, LAMBDA t :
        /\ Lower(t.name) = Lower(transaction.name)
        /\ \/ transaction.amount < 0
           \/ transaction.amount > 0
              /\ 100 * Abs(t.amount - transaction.amount) < 5 * transaction.amount)

Ordinals(txs) == [i \in 1..Len(txs) |-> ToOrdinal(txs[i].date.y, txs[i].date.m, txs[i].date.d)]

Range(q) == {q[i] : i \in 1..Len(q)}

Count(q, x) == Cardinality({i \in 1..Len(q) : q[i] = x})

\* the ordinals of q in ascending order
Ascending(q) ==
    CHOOSE r \in [1..Len(q) -> Range(q)] :
        /\ \A i \in 1..(Len(q) - 1) : r[i] <= r[i + 1]
        /\ \A x \in Range(q) : Count(r, x) = Count(q, x)

\* the consecutive day gaps of the group, by date
Gaps(txs) ==
    LET a == Ascending(Ordinals(txs))
    IN  [i \in 1..(Len(txs) - 1) |-> a[i + 1] - a[i]]

AllGapsAre(txs, g) == \A i \in 1..(Len(txs) - 1) : Gaps(txs)[i] = g

MeanGapIs(txs, g) == Len(txs) >= 2 /\ SumSeq(Gaps(txs)) = g * (Len(txs) - 1)

\* the sample standard deviation of the gaps is below limit + 1e-6
GapStdevBelow(txs, limit) ==
    \/ Len(txs) = 2
    \/ /\ Len(txs) > 2
       /\ Variance(Gaps(txs)).num <= limit * limit * Variance(Gaps(txs)).den

PeriodOf(pattern) ==
    CASE pattern = "weekly" -> 7 [] pattern = "monthly" -> 30
      [] pattern = "yearly" -> 365 [] OTHER -> 0

\* C4: a group of n >= 2 transactions at consecutive gaps of exactly 30
\* days, for a reference of non-zero amount: with n >= min_occurrences the
\* result is "monthly" with confidence 1.0 and length n; with
\* n < min_occurrences (gaps or not) it is 0.0, "none", 0.
C4_MonthlySequence ==
    (op = "detect_sequence_patterns" /\ transaction.amount # 0) =>
        /\ Len(ClaimGroup) < min_occurrences => ret = Return(NoPattern)
        /\ ( /\ Len(ClaimGroup) >= 2
             /\ Len(ClaimGroup) >= min_occurrences
             /\ AllGapsAre(ClaimGroup, 30) ) =>
               /\ ret.exc = "none"
               /\ ret.val.sequence_pattern = "monthly"
               /\ ConfIsOne(ret.val.sequence_confidence)
               /\ ret.val.sequence_length = Len(ClaimGroup)

\* three transactions 30 days apart with min_occurrences 3 gave "monthly"
C4_Witness ==
    /\ Returned("detect_sequence_patterns")
    /\ transaction.amount # 0
    /\ min_occurrences = 3
    /\ Len(ClaimGroup) = 3
    /\ AllGapsAre(ClaimGroup, 30)
    /\ ret.val.sequence_pattern = "monthly"

\* two such transactions with min_occurrences 3 gave "none"
C4_WitnessShort ==
    /\ Returned("detect_sequence_patterns")
    /\ transaction.amount # 0
    /\ min_occurrences = 3
    /\ Len(ClaimGroup) = 2
    /\ AllGapsAre(ClaimGroup, 30)
    /\ ret = Return(NoPattern)

\* C5 as stated: a group of at least min_occurrences transactions with mean
\* gap 33 is "monthly" whatever the individual gaps, and a group with mean
\* gap 35 is never "monthly".
C5_MeanGapAlone ==
    (Returned("detect_sequence_patterns") /\ transaction.amount # 0
        /\ Len(ClaimGroup) >= min_occurrences) =>
        /\ MeanGapIs(ClaimGroup, 33) => ret.val.sequence_pattern = "monthly"
        /\ MeanGapIs(ClaimGroup, 35) => ret.val.sequence_pattern # "monthly"

\* C5 amended: a group of at least min_occurrences transactions with mean
\* gap 33 is "monthly" when the sample standard deviation of its gaps is
\* below 30 + 1e-6 and "none" otherwise; a group with mean gap 35 is never
\* "monthly".
C5_MeanGapAndSpread ==
    (Returned("detect_sequence_patterns") /\ transaction.amount # 0
        /\ Len(ClaimGroup) >= min_occurrences) =>
        /\ (MeanGapIs(ClaimGroup, 33) /\ GapStdevBelow(ClaimGroup, 30)) =>
               ret.val.sequence_pattern = "monthly"
        /\ (MeanGapIs(ClaimGroup, 33) /\ ~GapStdevBelow(ClaimGroup, 30)) =>
               ret.val.sequence_pattern = "none"
        /\ MeanGapIs(ClaimGroup, 35) => ret.val.sequence_pattern # "monthly"

\* gaps 30 and 36 (mean 33) gave "monthly"
C5_Witness ==
    /\ Returned("detect_sequence_patterns")
    /\ Len(ClaimGroup) = 3
    /\ Len(ClaimGroup) >= min_occurrences
    /\ MeanGapIs(ClaimGroup, 33)
    /\ ~AllGapsAre(ClaimGroup, 33)
    /\ ret.val.sequence_pattern = "monthly"

\* C10: a returned result has pattern "none" exactly when its confidence is
\* 0.0; a reported pattern has a confidence in (0, 1], which is the one
\* computed for its period from the gaps of the group, and the length is
\* the size of the candidate group, at least min_occurrences.
C10_PatternAndConfidence ==
    Returned("detect_sequence_patterns") =>
        LET r == ret.val
            conf == r.sequence_confidence
        IN  /\ r.sequence_pattern \in {"none", "weekly", "monthly", "yearly"}
            /\ (r.sequence_pattern = "none") <=> (conf = Zero)
            /\ r.sequence_pattern # "none" =>
                 /\ ConfPositive(conf)
                 /\ conf.num >= 0 /\ conf.den > 0
                 /\ conf.p = PeriodOf(r.sequence_pattern)
                 /\ GapStdevBelow(ClaimGroup, conf.p)
                 /\ r.sequence_length = Len(ClaimGroup)
                 /\ r.sequence_length >= min_occurrences

\* three transactions at uneven gaps were reported "monthly" with a
\* confidence strictly between 0 and 1
C10_Witness ==
    /\ Returned("detect_sequence_patterns")
    /\ ret.val.sequence_pattern = "monthly"
    /\ ~ConfIsOne(ret.val.sequence_confidence)
    /\ ret.val.sequence_length = 3

\* C9: for a reference of non-zero amount the candidate group of
\* detect_sequence_patterns is the group of the specification (the 5% band
\* for a positive reference amount, every same-name transaction for a
\* negative one), as the returned length shows.
C9_SignedTolerance ==
    (op = "detect_sequence_patterns" /\ transaction.amount # 0) =>
        /\ vendor_txs(transaction, all_transactions) = ClaimGroup
        /\ Len(ClaimGroup) < min_occurrences => ret = Return(NoPattern)
        /\ (Len(ClaimGroup) >= min_occurrences /\ ret.exc = "none") =>
               ret.val.sequence_length = Len(ClaimGroup)

\* a negative reference amount took a transaction of another sign into a
\* group that was long enough to be measured
C9_Witness ==
    /\ Returned("detect_sequence_patterns")
    /\ transaction.amount < 0
    /\ \E i \in 1..Len(all_transactions) :
           /\ Lower(all_transactions[i].name) = Lower(transaction.name)
           /\ all_transactions[i].amount > 0
    /\ Len(ClaimGroup) >= min_occurrences
    /\ ret.val.sequence_length = Len(ClaimGroup)
    /\ ret.val.sequence_length >= 2

\* the day distance of history transaction i from the reference
DayDistance(i) ==
    Abs(Ordinals(all_transactions)[i] - Ordinals(<<transaction>>)[1])

\* C2 as stated: with tolerance 0 and a period > 0 the count is at least
\* the number of history transactions at a multiple k of the period from
\* the reference, for every integer k (k = 0 included).
C2_EveryMultiple ==
    (Returned("get_n_transactions_days_apart") /\ n_days_apart > 0 /\ n_days_off = 0) =>
        ret.val >= Cardinality({i \in 1..Len(all_transactions) :
                                   DayDistance(i) % n_days_apart = 0})

\* C2 amended: ... at a non-zero multiple of the period from the reference.
C2_NonZeroMultiple ==
    (Returned("get_n_transactions_days_apart") /\ n_days_apart > 0 /\ n_days_off = 0) =>
        ret.val >= Cardinality({i \in 1..Len(all_transactions) :
                                   /\ DayDistance(i) % n_days_apart = 0
                                   /\ DayDistance(i) # 0})

\* transactions two periods before and three periods after were counted
C2_Witness ==
    /\ Returned("get_n_transactions_days_apart")
    /\ n_days_apart = 7 /\ n_days_off = 0
    /\ \E i, j \in 1..Len(all_transactions) :
           /\ Ordinals(all_transactions)[i] - Ordinals(<<transaction>>)[1] = -14
           /\ Ordinals(all_transactions)[j] - Ordinals(<<transaction>>)[1] = 21
    /\ ret.val >= 2

\* C7: a call of the interval matcher or of its percentage with a period
\* <= 0 ends in an invalid-argument error.
C7_PeriodRejected ==
    ( /\ op \in {"get_n_transactions_days_apart", "get_pct_transactions_days_apart"}
      /\ n_days_apart <= 0 ) => ret.exc = "InvalidArgumentError"

\* C3: get_is_recurring is true exactly when the history holds a
\* transaction of the same name and the same amount, with another date
\* string, whose day distance from the reference is divisible by 7, 14 or
\* 30.
C3_RecurringIff ==
    op = "get_is_recurring" =>
        /\ ret.exc = "none"
        /\ ret.val <=>
             \E i \in 1..Len(all_transactions) :
                 /\ all_transactions[i].name = transaction.name
                 /\ all_transactions[i].amount = transaction.amount
                 /\ all_transactions[i].date # transaction.date
                 /\ \E period \in {7, 14, 30} : DayDistance(i) % period = 0

\* one match, 14 days away: true
C3_Witness ==
    /\ Returned("get_is_recurring")
    /\ Len(similar_transactions(transaction, all_transactions)) = 1
    /\ \E i \in 1..Len(all_transactions) :
           /\ all_transactions[i].name = transaction.name
           /\ all_transactions[i].amount = transaction.amount
           /\ DayDistance(i) = 14
    /\ ret.val = TRUE

\* one match, 10 days away: false
C3_WitnessTen ==
    /\ Returned("get_is_recurring")
    /\ Len(similar_transactions(transaction, all_transactions)) = 1
    /\ \E i \in 1..Len(all_transactions) :
           /\ all_transactions[i].name = transaction.name
           /\ all_transactions[i].amount = transaction.amount
           /\ DayDistance(i) = 10
    /\ ret.val = FALSE

Zero0(pct) == pct.num = 0

\* C1: get_features on the empty history returns a mapping, and every
\* percentage in it is 0.0.
C1_EmptyHistory ==
    (op = "get_features" /\ all_transactions = <<>>) =>
        /\ ret.exc = "none"
        /\ Zero0(ret.val.percent_transactions_same_amount)
        /\ Zero0(ret.val.pct_transactions_same_day)
        /\ Zero0(ret.val.pct_14_days_apart_exact)
        /\ Zero0(ret.val.pct_14_days_apart_off_by_1)
        /\ Zero0(ret.val.pct_7_days_apart_exact)
        /\ Zero0(ret.val.pct_7_days_apart_off_by_1)

\* C8: get_recurring_transaction_confidence returns a score, and the score
\* is in [0, 1].  The model knows the score to lie in [lo, hi] thousandths:
\* the claim fails for certain when the call raises, when hi < 0 or when
\* lo > 1000.
C8_ScoreInUnitInterval ==
    op = "get_recurring_transaction_confidence" =>
        /\ ret.exc = "none"
        /\ ret.val.hi >= 0
        /\ ret.val.lo <= 1000

\* the parse calls of a call of get_n_transactions_days_apart, in order
CountTrace == <<transaction.date>> \o Dates(all_transactions)

\* C6: a call _parse_date(s) on a valid string returns the date an uncached
\* parse of s gives, whatever the memo table holds; every entry of the
\* table maps its string to that date, the table holds a string once and
\* never more than its capacity; and a feature call returns what it
\* returns on an empty table.
C6_CacheTransparent ==
    /\ Len(cache) <= MaxCacheSize
    /\ \A i, j \in 1..Len(cache) : cache[i].key = cache[j].key => i = j
    /\ \A i \in 1..Len(cache) : Return(cache[i].value) = strptime(cache[i].key)
    /\ op = "_parse_date" => ret = strptime(date_str)
    /\ op = "get_n_transactions_days_apart" =>
           ret = get_n_transactions_days_apart(<<>>, transaction, all_transactions,
                                               n_days_apart, n_days_off).ret
    /\ op = "get_is_recurring" =>
           ret = get_is_recurring(<<>>, transaction, all_transactions).ret

\* within one call a string was parsed, pushed out of the full table by
\* other strings and parsed again, and the count is the one of the dates
\* themselves
C6_Witness ==
    /\ Returned("get_n_transactions_days_apart")
    /\ \E i, j \in 1..Len(CountTrace) :
           /\ i < j
           /\ CountTrace[i] = CountTrace[j]
           /\ Cardinality({CountTrace[k] : k \in (i + 1)..(j - 1)}
                              \ {CountTrace[i]}) >= MaxCacheSize
    /\ Len(cache) = MaxCacheSize
    /\ ret.val = Cardinality({i \in 1..Len(all_transactions) :
                                 DayDistance(i) # 0 /\ DayDistance(i) % 7 = 0})
    /\ ret.val > 0

====
